---------------------------- MODULE Spec2Model ----------------------------
(***************************************************************************)
(* State-machine model of the AMD backend (src/api_server.py): the         *)
(* one-time model load at import, then the five Flask routes.              *)
(*                                                                         *)
(* Numbers.  Every real number of the program that takes part in a         *)
(* computation (pH, turbidity, orp, estimator outputs) is represented by   *)
(* the integer 2*x ("halves"): all thresholds and defaults of the code     *)
(* (3.0, 4.0, 5.0, 6.5, 9.0, 500, ...) are multiples of 0.5, and IEEE      *)
(* doubles compute exactly on such values in the ranges used here.  A      *)
(* Python float that is NaN is the record NaN.  Python ints (days,         *)
(* confidence, alert_code, class indices) are plain integers.  Float       *)
(* literals that are only copied into a response (0.9, 0.7, 0.5) are       *)
(* strings.                                                                *)
(***************************************************************************)
EXTENDS Integers, FiniteSets, Sequences, TLC

VARIABLES
    pc,             \* position of the process: the three loads, then serving
    disk,           \* environment: whether each artifact file deserializes
    models_loaded,  \* the module-level dict of load flags
    pm_model,       \* module-level name: "unbound" or "estimator"
    class_model,
    anomaly_model,
    request,        \* the request being handled (route and parsed body)
    remote,         \* what the telemetry service answered to this request
    est,            \* what each estimator did when invoked for this request
    response        \* the response the handler returned

vars == <<pc, disk, models_loaded, pm_model, class_model, anomaly_model,
          request, remote, est, response>>

shared == <<models_loaded, pm_model, class_model, anomaly_model>>

(***************************************************************************)
(* Bounds of the model.                                                    *)
(***************************************************************************)
\* class_model.predict returns an integer in -MaxClassPred .. MaxClassPred
MaxClassPred == 3
\* the history feed holds at most MaxFeeds entries
MaxFeeds == 2

(***************************************************************************)
(* Numbers                                                                 *)
(***************************************************************************)
\* the real number n (an integer) and the real number n + 0.5, in halves
Real(n) == n * 2
RealHalf(n) == n * 2 + 1

\* a Python float: NaN or a finite value v (in halves)
Num(v) == [nan |-> FALSE, v |-> v]
NaN == [nan |-> TRUE, v |-> 0]

\* IEEE comparisons: every comparison with NaN is false
Lt(a, b) == ~a.nan /\ ~b.nan /\ a.v < b.v
Gt(a, b) == Lt(b, a)

\* float arithmetic; NaN propagates
FSub(a, b) == IF a.nan \/ b.nan THEN NaN ELSE Num(a.v - b.v)
FAdd(a, b) == IF a.nan \/ b.nan THEN NaN ELSE Num(a.v + b.v)
\* a * n for an int n
FMulInt(a, n) == IF a.nan THEN NaN ELSE Num(a.v * n)

\* int(x) of a finite float: truncation toward zero
IntTrunc(h) == IF h >= 0 THEN h \div 2 ELSE -((-h) \div 2)
\* int(x) raises ValueError on NaN
IntRaises(a) == a.nan
IntOf(a) == IntTrunc(a.v)

Max(a, b) == IF a >= b THEN a ELSE b
Min(a, b) == IF a <= b THEN a ELSE b

(***************************************************************************)
(* Startup: models_loaded and the three joblib.load attempts               *)
(***************************************************************************)
Roles == {"pm_model", "class_model", "anomaly_model"}

\* joblib.load either returns an estimator or raises (missing / corrupt file)
DiskStates == {"ok", "unreadable"}

NoRequest == [route |-> "none"]
NoRemote == [kind |-> "none"]
NotCalled == [kind |-> "notcalled", nan |-> FALSE, out |-> 0]
NoEst == [r \in Roles |-> NotCalled]
NoResponse == [kind |-> "none", status |-> 0]

Init ==
    /\ pc = "load_pm"
    /\ disk \in [Roles -> DiskStates]
    /\ models_loaded = [r \in Roles |-> FALSE]
    /\ pm_model = "unbound"
    /\ class_model = "unbound"
    /\ anomaly_model = "unbound"
    /\ request = NoRequest
    /\ remote = NoRemote
    /\ est = NoEst
    /\ response = NoResponse

\* try: X = joblib.load(...); models_loaded[role] = True / except: log
FlagAfterLoad_SetBeforeLoad(ml, role) == [ml EXCEPT ![role] = TRUE]
FlagAfterLoad(ml, role) ==
    IF disk[role] = "ok" THEN [ml EXCEPT ![role] = TRUE] ELSE ml

HandleAfterLoad(h, role) == IF disk[role] = "ok" THEN "estimator" ELSE h

LoadPM ==
    /\ pc = "load_pm"
    /\ pm_model' = HandleAfterLoad(pm_model, "pm_model")
    /\ models_loaded' = FlagAfterLoad(models_loaded, "pm_model")
    /\ pc' = "load_class"
    /\ UNCHANGED <<disk, class_model, anomaly_model, request, remote, est, response>>

LoadClass ==
    /\ pc = "load_class"
    /\ class_model' = HandleAfterLoad(class_model, "class_model")
    /\ models_loaded' = FlagAfterLoad(models_loaded, "class_model")
    /\ pc' = "load_anomaly"
    /\ UNCHANGED <<disk, pm_model, anomaly_model, request, remote, est, response>>

LoadAnomaly ==
    /\ pc = "load_anomaly"
    /\ anomaly_model' = HandleAfterLoad(anomaly_model, "anomaly_model")
    /\ models_loaded' = FlagAfterLoad(models_loaded, "anomaly_model")
    /\ pc' = "serving"
    /\ UNCHANGED <<disk, pm_model, class_model, request, remote, est, response>>

(***************************************************************************)
(* Responses                                                               *)
(***************************************************************************)
\* jsonify(obj) [, status]
JsonObject(status, body) == [kind |-> "object", status |-> status, body |-> body]
JsonArray(status, items) == [kind |-> "array", status |-> status, items |-> items]

\* the server is idle: no request is being handled
Idle == pc = "serving" /\ request = NoRequest

(***************************************************************************)
(* GET /                                                                   *)
(***************************************************************************)
THINGSPEAK_CHANNEL_ID == "2995113"

HealthBody ==
    [status |-> "online",
     message |-> "AMD Backend API is running",
     models_loaded |-> models_loaded,
     thingspeak_channel |-> THINGSPEAK_CHANNEL_ID]

health_check ==
    /\ Idle
    /\ request' = [route |-> "/"]
    /\ response' = JsonObject(200, HealthBody)
    /\ UNCHANGED <<pc, disk, shared, remote, est>>

(***************************************************************************)
(* GET /api/models-status                                                  *)
(***************************************************************************)
\* sum(models_loaded.values())
LoadedCount(ml) == Cardinality({r \in DOMAIN ml : ml[r]})

ModelsStatusBody ==
    [models_loaded |-> models_loaded,
     total_models |-> Cardinality(DOMAIN models_loaded),
     loaded_count |-> LoadedCount(models_loaded)]

get_models_status ==
    /\ Idle
    /\ request' = [route |-> "/api/models-status"]
    /\ response' = JsonObject(200, ModelsStatusBody)
    /\ UNCHANGED <<pc, disk, shared, remote, est>>

(***************************************************************************)
(* The telemetry service (ThingSpeak) as seen through requests.get          *)
(***************************************************************************)
\* A value of a feed entry's field1..field4 / created_at: the key is absent,
\* null, the empty string, or a non-empty string that is an integer literal
\* ("7"), a decimal literal ("3.5") or not a number ("abc").  h is the
\* number the literal denotes, in halves.
Absent == [tag |-> "absent", lit |-> "", h |-> 0]
Null == [tag |-> "null", lit |-> "", h |-> 0]
Empty == [tag |-> "empty", lit |-> "", h |-> 0]
IntStr(n) == [tag |-> "str", lit |-> "int", h |-> Real(n)]
DecStr(h) == [tag |-> "str", lit |-> "dec", h |-> h]
Garbage == [tag |-> "str", lit |-> "garbage", h |-> 0]
Timestamp == [tag |-> "str", lit |-> "timestamp", h |-> 0]

FieldVals == {Absent, Null, Empty, IntStr(7), IntStr(0), DecStr(RealHalf(3)), Garbage}
CreatedVals == {Absent, Timestamp}

\* d.get(key) of a present key is its value, of an absent key None
\* `x if d.get(key) else default`: None and "" are falsy, any other string truthy
Truthy(f) == f.tag = "str"
\* float(s) raises ValueError unless s is a numeric literal
FloatRaises(f) == f.lit \notin {"int", "dec"}
\* int(s) raises ValueError unless s is an integer literal
IntStrRaises(f) == f.lit # "int"
IntOfStr(f) == IntTrunc(f.h)
\* d.get('created_at', '')
TimestampOf(c) == IF c.tag = "absent" THEN "" ELSE "2025-01-01T00:00:00Z"

\* What requests.get / raise_for_status / response.json can raise.
\* response.json() on a body that is not JSON raises
\* requests.exceptions.JSONDecodeError (a RequestException) in current
\* releases of requests and a plain ValueError in older ones.
TransportErrors == {"ConnectionError", "Timeout", "HTTPError"}
JsonErrors == {"JSONDecodeError", "ValueError"}
RequestExceptions == TransportErrors \cup {"JSONDecodeError"}
IsRequestException(exc) == exc \in RequestExceptions

RemoteRaise(exc) == [kind |-> "raise", exc |-> exc]
RemoteJson(data) == [kind |-> "json", data |-> data]
\* a JSON value that is not an object (ThingSpeak answers -1 for an empty channel)
NonObject == [type |-> "other"]

Feeds == [field1 : FieldVals, field2 : FieldVals, field3 : FieldVals,
          field4 : FieldVals, created_at : CreatedVals]
LastObject(f) == [type |-> "object", feed |-> f]

RemoteLast ==
    {RemoteRaise(e) : e \in TransportErrors \cup JsonErrors}
    \cup {RemoteJson(NonObject)}
    \cup {RemoteJson(LastObject(f)) : f \in Feeds}

(***************************************************************************)
(* GET /api/current-data                                                   *)
(***************************************************************************)
PH_DEFAULT == RealHalf(6)
TURBIDITY_DEFAULT == Real(500)
ORP_DEFAULT == Real(-100)
ALERT_DEFAULT == 0

\* float(data.get(k, 0)) if data.get(k) else default
FloatOrDefault(f, default) == IF Truthy(f) THEN f.h ELSE default
\* int(data.get(k, 0)) if data.get(k) else 0
IntOrDefault(f, default) == IF Truthy(f) THEN IntOfStr(f) ELSE default

\* the conversions of lines 71-74 raise ValueError
LatestRaises(f) ==
    \/ Truthy(f.field1) /\ FloatRaises(f.field1)
    \/ Truthy(f.field2) /\ FloatRaises(f.field2)
    \/ Truthy(f.field3) /\ FloatRaises(f.field3)
    \/ Truthy(f.field4) /\ IntStrRaises(f.field4)

LatestResult(f) ==
    [pH |-> FloatOrDefault(f.field1, PH_DEFAULT),
     turbidity |-> FloatOrDefault(f.field2, TURBIDITY_DEFAULT),
     orp |-> FloatOrDefault(f.field3, ORP_DEFAULT),
     alert_code |-> IntOrDefault(f.field4, ALERT_DEFAULT),
     timestamp |-> TimestampOf(f.created_at),
     status |-> "success"]

FallbackData ==
    [pH |-> PH_DEFAULT, turbidity |-> TURBIDITY_DEFAULT,
     orp |-> ORP_DEFAULT, alert_code |-> ALERT_DEFAULT]

\* except requests.RequestException
FallbackResponse_NoFallback(exc) == JsonObject(500, [error |-> exc])
FallbackResponse(exc) ==
    JsonObject(500, [error |-> "Failed to fetch data from ThingSpeak",
                     details |-> exc,
                     fallback_data |-> FallbackData])

\* except Exception
ErrorResponse_Unhandled(exc) == [kind |-> "unhandled", status |-> 500]
ErrorResponse(exc) == JsonObject(500, [error |-> exc])

CurrentDataResponse(r) ==
    IF r.kind = "raise"
    THEN IF IsRequestException(r.exc)
         THEN FallbackResponse(r.exc)
         ELSE ErrorResponse(r.exc)
    ELSE IF r.data.type # "object"
    THEN ErrorResponse("AttributeError")
    ELSE IF LatestRaises(r.data.feed)
    THEN ErrorResponse("ValueError")
    ELSE JsonObject(200, LatestResult(r.data.feed))

get_current_data ==
    /\ Idle
    /\ \E r \in RemoteLast :
        /\ request' = [route |-> "/api/current-data"]
        /\ remote' = r
        /\ response' = CurrentDataResponse(r)
    /\ UNCHANGED <<pc, disk, shared, est>>

(***************************************************************************)
(* GET /api/historical-data                                                *)
(***************************************************************************)
\* an optional value: None or a value
None == <<>>
Some(v) == <<v>>

\* float(feed.get(k, 0)) if feed.get(k) else None
FloatOrNone_Zero(f) == IF Truthy(f) THEN Some(f.h) ELSE Some(0)
FloatOrNone(f) == IF Truthy(f) THEN Some(f.h) ELSE None

\* A feed with every field present, and the feeds that differ from it in
\* one field, and the feed with no field at all.
FullFeed ==
    [field1 |-> DecStr(RealHalf(3)), field2 |-> IntStr(7), field3 |-> IntStr(0),
     field4 |-> IntStr(7), created_at |-> Timestamp]
BareFeed ==
    [field1 |-> Absent, field2 |-> Absent, field3 |-> Absent,
     field4 |-> Absent, created_at |-> Absent]
HistoryFeeds ==
    {[FullFeed EXCEPT ![k] = v] : k \in {"field1", "field2", "field3", "field4"},
                                  v \in FieldVals}
    \cup {BareFeed}

FeedLists == UNION {[1..n -> HistoryFeeds] : n \in 0..MaxFeeds}

\* data.get('feeds', []): the key is absent, null, or a list of feed entries
HistoryObject(tag, feeds) == [type |-> "object", tag |-> tag, feeds |-> feeds]

RemoteHistory ==
    {RemoteRaise(e) : e \in TransportErrors \cup JsonErrors}
    \cup {RemoteJson(NonObject)}
    \cup {RemoteJson(HistoryObject("absent", <<>>)), RemoteJson(HistoryObject("null", <<>>))}
    \cup {RemoteJson(HistoryObject("list", fs)) : fs \in FeedLists}

HistoryItemRaises(f) ==
    \/ Truthy(f.field1) /\ FloatRaises(f.field1)
    \/ Truthy(f.field2) /\ FloatRaises(f.field2)
    \/ Truthy(f.field3) /\ FloatRaises(f.field3)
    \/ Truthy(f.field4) /\ IntStrRaises(f.field4)

HistoryItem(f) ==
    [timestamp |-> TimestampOf(f.created_at),
     pH |-> FloatOrNone(f.field1),
     turbidity |-> FloatOrNone(f.field2),
     orp |-> FloatOrNone(f.field3),
     alert_code |-> IntOrDefault(f.field4, 0)]

HistoricalDataResponse(r) ==
    IF r.kind = "raise"
    THEN ErrorResponse(r.exc)
    ELSE IF r.data.type # "object"
    THEN ErrorResponse("AttributeError")
    ELSE IF r.data.tag = "null"
    THEN ErrorResponse("TypeError")
    ELSE IF \E i \in DOMAIN r.data.feeds : HistoryItemRaises(r.data.feeds[i])
    THEN ErrorResponse("ValueError")
    ELSE JsonArray(200, [i \in DOMAIN r.data.feeds |-> HistoryItem(r.data.feeds[i])])

get_historical_data ==
    /\ Idle
    /\ \E r \in RemoteHistory :
        /\ request' = [route |-> "/api/historical-data"]
        /\ remote' = r
        /\ response' = HistoricalDataResponse(r)
    /\ UNCHANGED <<pc, disk, shared, est>>

(***************************************************************************)
(* POST|GET /api/ai-predictions: the request body                          *)
(***************************************************************************)
\* The value of a key of the JSON body: the key is absent, or its value is
\* one float() raises on (null, a non-numeric string, a list), or a number
\* (a JSON number or a numeric string; NaN is one).
KeyAbsent == [tag |-> "absent", f |-> Num(0)]
KeyBad == [tag |-> "bad", f |-> Num(0)]
KeyNum(f) == [tag |-> "num", f |-> f]

PHSamples ==
    {Num(Real(0)), Num(RealHalf(2)), Num(Real(3)), Num(RealHalf(3)), Num(Real(4)),
     Num(RealHalf(4)), Num(Real(5)), Num(Real(9)), Num(RealHalf(9)), Num(Real(15)),
     NaN}
TurbiditySamples ==
    {Num(Real(-1)), Num(Real(0)), Num(Real(1000)), Num(RealHalf(1000)),
     Num(Real(1500)), Num(RealHalf(1500)), Num(Real(2000)), Num(RealHalf(2000))}
OrpSamples == {Num(Real(250))}

KeyVals(samples) == {KeyAbsent, KeyBad} \cup {KeyNum(f) : f \in samples}

\* What request.json evaluates to: it raises (malformed JSON; a request
\* without a JSON content type in current Flask), or it is None (JSON null;
\* a request without a JSON content type in older Flask), or a falsy value
\* other than None ({}, [], 0, "", false), or a truthy value that is not an
\* object, or a non-empty object.  extra: the object has keys besides pH,
\* turbidity and orp.
BodyRaises == [kind |-> "raises"]
BodyNone == [kind |-> "none"]
BodyFalsy == [kind |-> "falsy"]
BodyNonDict == [kind |-> "nondict"]
DictBodies ==
    {b \in [kind : {"dict"}, pH : KeyVals(PHSamples),
            turbidity : KeyVals(TurbiditySamples), orp : KeyVals(OrpSamples),
            extra : BOOLEAN] :
        b.extra \/ b.pH.tag # "absent" \/ b.turbidity.tag # "absent"
                \/ b.orp.tag # "absent"}
Bodies == {BodyRaises, BodyNone, BodyFalsy, BodyNonDict} \cup DictBodies

\* `if not data`
NoData(b) == b.kind \in {"none", "falsy"}

\* float(data.get(key, default))
FloatOfKey_ZeroDefault(k, default) == k.f
FloatOfKey(k, default) == IF k.tag = "absent" THEN Num(default) ELSE k.f
FloatOfKeyRaises(k) == k.tag = "bad"

\* lines 112-114 are reached and raise nothing
InputsParsed(b) ==
    /\ b.kind = "dict"
    /\ ~FloatOfKeyRaises(b.pH)
    /\ ~FloatOfKeyRaises(b.turbidity)
    /\ ~FloatOfKeyRaises(b.orp)

(***************************************************************************)
(* The estimators                                                          *)
(***************************************************************************)
\* X_model.predict(input)[0] raises, or returns a value: a float (in halves,
\* or NaN) for the regressor, a class index for the classifier, 1 or -1 for
\* the isolation forest.
Raised == [kind |-> "raise", nan |-> FALSE, out |-> 0]
Returned(out) == [kind |-> "value", nan |-> FALSE, out |-> out]
ReturnedNaN == [kind |-> "value", nan |-> TRUE, out |-> 0]

PmOutcomes == {Raised, ReturnedNaN, Returned(RealHalf(4)), Returned(Real(-3))}
ClassOutcomes == {Raised} \cup {Returned(k) : k \in -MaxClassPred .. MaxClassPred}
AnomalyOutcomes == {Raised, Returned(-1), Returned(1)}

\* an estimator is invoked only under `if models_loaded[role]`
OutcomesOf(role, outcomes) == IF models_loaded[role] THEN outcomes ELSE {NotCalled}

EstChoices(b) ==
    IF InputsParsed(b)
    THEN [pm_model : OutcomesOf("pm_model", PmOutcomes),
          class_model : OutcomesOf("class_model", ClassOutcomes),
          anomaly_model : OutcomesOf("anomaly_model", AnomalyOutcomes)]
    ELSE {NoEst}

(***************************************************************************)
(* 1. Predictive maintenance                                               *)
(***************************************************************************)
MaintenancePlaceholder ==
    [days_until_replacement |-> 5, confidence |-> 50, error |-> "Model unavailable"]

\* 85 + (pH - 4) * 5
ConfidenceExpr(pH) == FAdd(Num(Real(85)), FMulInt(FSub(pH, Num(Real(4))), 5))
\* 7 - (7 - pH) * 2
HeuristicDaysExpr(pH) == FSub(Num(Real(7)), FMulInt(FSub(Num(Real(7)), pH), 2))

MaintenanceFromModel(pH, o) ==
    IF o.kind = "raise" \/ IntRaises(o) \/ IntRaises(ConfidenceExpr(pH))
    THEN MaintenancePlaceholder
    ELSE [days_until_replacement |-> Max(1, IntOf([nan |-> o.nan, v |-> o.out])),
          confidence |-> Min(95, Max(70, IntOf(ConfidenceExpr(pH))))]

MaintenanceHeuristic(pH) ==
    IF IntRaises(HeuristicDaysExpr(pH))
    THEN MaintenancePlaceholder
    ELSE [days_until_replacement |-> Max(1, IntOf(HeuristicDaysExpr(pH))),
          confidence |-> 75]

Maintenance(pH, o) ==
    IF models_loaded["pm_model"]
    THEN MaintenanceFromModel(pH, o)
    ELSE MaintenanceHeuristic(pH)

(***************************************************************************)
(* 2. Water quality classification                                         *)
(***************************************************************************)
quality_labels == <<"Safe", "Warning", "Dangerous">>

QualityPlaceholder ==
    [status |-> "Unknown", confidence |-> "0.5", error |-> "Model unavailable"]

\* quality_labels[min(len(quality_labels)-1, max(0, quality_pred))]
\* (Python indexes from 0, a TLA+ sequence from 1)
ClampedLabel_Unclamped(k) ==
    IF k \in 0 .. Len(quality_labels) - 1 THEN quality_labels[k + 1]
    ELSE IF k \in -Len(quality_labels) .. -1 THEN quality_labels[Len(quality_labels) + k + 1]
    ELSE "Unknown"
ClampedLabel(k) == quality_labels[Min(Len(quality_labels) - 1, Max(0, k)) + 1]

QualityFromModel(o) ==
    IF o.kind = "raise"
    THEN QualityPlaceholder
    ELSE [status |-> ClampedLabel(o.out), confidence |-> "0.9"]

HeuristicStatus_WarningFirst(pH, turbidity) ==
    IF Lt(pH, Num(Real(5))) \/ Gt(turbidity, Num(Real(1000)))
    THEN "Warning"
    ELSE IF Lt(pH, Num(Real(4))) \/ Gt(turbidity, Num(Real(1500)))
    THEN "Dangerous"
    ELSE "Safe"
HeuristicStatus(pH, turbidity) ==
    IF Lt(pH, Num(Real(4))) \/ Gt(turbidity, Num(Real(1500)))
    THEN "Dangerous"
    ELSE IF Lt(pH, Num(Real(5))) \/ Gt(turbidity, Num(Real(1000)))
    THEN "Warning"
    ELSE "Safe"

QualityHeuristic(pH, turbidity) ==
    [status |-> HeuristicStatus(pH, turbidity), confidence |-> "0.7"]

Quality_RuleOnRaise(pH, turbidity, o) ==
    IF models_loaded["class_model"] /\ o.kind # "raise"
    THEN QualityFromModel(o)
    ELSE [QualityHeuristic(pH, turbidity) EXCEPT !.confidence = "0.5"]
         @@ [error |-> "Model unavailable"]
Quality(pH, turbidity, o) ==
    IF models_loaded["class_model"]
    THEN QualityFromModel(o)
    ELSE QualityHeuristic(pH, turbidity)

(***************************************************************************)
(* 3. Anomaly detection                                                    *)
(***************************************************************************)
AnomalyPlaceholder ==
    [is_anomaly |-> FALSE, status |-> "Detection unavailable",
     error |-> "Model unavailable"]

AnomalyResult(is_anomaly) ==
    [is_anomaly |-> is_anomaly,
     status |-> IF is_anomaly THEN "Anomaly Detected" ELSE "Normal Operation"]

AnomalyFromModel(o) ==
    IF o.kind = "raise" THEN AnomalyPlaceholder ELSE AnomalyResult(o.out = -1)

AnomalyHeuristic(pH, turbidity) ==
    AnomalyResult(Lt(pH, Num(Real(3))) \/ Gt(pH, Num(Real(9)))
                  \/ Gt(turbidity, Num(Real(2000))))

Anomaly(pH, turbidity, o) ==
    IF models_loaded["anomaly_model"]
    THEN AnomalyFromModel(o)
    ELSE AnomalyHeuristic(pH, turbidity)

(***************************************************************************)
(* POST|GET /api/ai-predictions: the handler                               *)
(***************************************************************************)
Predictions_DropsFailedRole(pH, turbidity, orp, e) ==
    IF e["anomaly_model"].kind = "raise"
    THEN [maintenance |-> Maintenance(pH, e["pm_model"]),
          quality |-> Quality(pH, turbidity, e["class_model"])]
    ELSE [maintenance |-> Maintenance(pH, e["pm_model"]),
          quality |-> Quality(pH, turbidity, e["class_model"]),
          anomaly |-> Anomaly(pH, turbidity, e["anomaly_model"])]
Predictions(pH, turbidity, orp, e) ==
    [maintenance |-> Maintenance(pH, e["pm_model"]),
     quality |-> Quality(pH, turbidity, e["class_model"]),
     anomaly |-> Anomaly(pH, turbidity, e["anomaly_model"])]

\* the outermost except Exception
PredictionErrorResponse(exc) ==
    JsonObject(500,
        [error |-> "Failed to generate predictions",
         details |-> exc,
         fallback_predictions |->
            [maintenance |-> [days_until_replacement |-> 5, confidence |-> 50],
             quality |-> [status |-> "Unknown", confidence |-> "0.5"],
             anomaly |-> [is_anomaly |-> FALSE, status |-> "Detection unavailable"]]])

NoDataResponse == JsonObject(400, [error |-> "No data provided"])

PredictionsResponse(b, e) ==
    IF b.kind = "raises"
    THEN PredictionErrorResponse("BadRequest")
    ELSE IF NoData(b)
    THEN NoDataResponse
    ELSE IF b.kind = "nondict"
    THEN PredictionErrorResponse("AttributeError")
    ELSE IF ~InputsParsed(b)
    THEN PredictionErrorResponse("ValueError")
    ELSE JsonObject(200,
            Predictions(FloatOfKey(b.pH, PH_DEFAULT),
                        FloatOfKey(b.turbidity, TURBIDITY_DEFAULT),
                        FloatOfKey(b.orp, ORP_DEFAULT), e))

\* what the handler leaves of the module-level state
PredictionsShared_DropsFailed(e) ==
    /\ models_loaded' = [r \in Roles |-> models_loaded[r] /\ e[r].kind # "raise"]
    /\ UNCHANGED <<pm_model, class_model, anomaly_model>>
PredictionsShared(e) == UNCHANGED shared

get_ai_predictions ==
    /\ Idle
    /\ \E b \in Bodies :
        \E e \in EstChoices(b) :
            /\ request' = [route |-> "/api/ai-predictions", body |-> b]
            /\ est' = e
            /\ response' = PredictionsResponse(b, e)
            /\ PredictionsShared(e)
    /\ UNCHANGED <<pc, disk, remote>>

(***************************************************************************)
(* The server loop: the response is sent, the next request may arrive      *)
(***************************************************************************)
FinishRequest ==
    /\ pc = "serving"
    /\ request # NoRequest
    /\ request' = NoRequest
    /\ remote' = NoRemote
    /\ est' = NoEst
    /\ response' = NoResponse
    /\ UNCHANGED <<pc, disk, shared>>

Next ==
    \/ LoadPM
    \/ LoadClass
    \/ LoadAnomaly
    \/ health_check
    \/ get_models_status
    \/ get_current_data
    \/ get_ai_predictions
    \/ get_historical_data
    \/ FinishRequest

Spec == Init /\ [][Next]_vars


(***************************************************************************)
(* Vocabulary of the properties                                            *)
(***************************************************************************)
Answered(route) == request.route = route /\ response # NoResponse

\* a prediction request that reached the three prediction sections
Predicted == Answered("/api/ai-predictions") /\ InputsParsed(request.body)

\* the inputs of the prediction request as the handler reads them
GivenPH == FloatOfKey(request.body.pH, PH_DEFAULT)
GivenTurbidity == FloatOfKey(request.body.turbidity, TURBIDITY_DEFAULT)

\* the body is a JSON object, or nothing at all, without pH, turbidity or orp
LacksAField(b) ==
    \/ NoData(b)
    \/ /\ b.kind = "dict"
       /\ "absent" \in {b.pH.tag, b.turbidity.tag, b.orp.tag}

\* the value a key stands for when a missing key means `d`
ValueOr(k, d) == IF k.tag = "absent" THEN Num(d) ELSE k.f

Severity(status) ==
    CASE status = "Safe" -> 0
      [] status = "Warning" -> 1
      [] status = "Dangerous" -> 2

\* the role's estimator was invoked and raised
RoleRaised(role) == est[role].kind = "raise"
\* the role did not produce a model-derived value
FellBack(role) == ~models_loaded[role] \/ RoleRaised(role)

GroupOf(role) ==
    CASE role = "pm_model" -> response.body.maintenance
      [] role = "class_model" -> response.body.quality
      [] role = "anomaly_model" -> response.body.anomaly

\* the threshold rules, spelled out on the request's values
RuleDays == Max(1, IntTrunc(Real(7) - (Real(7) - GivenPH.v) * 2))
RuleStatus ==
    IF Lt(GivenPH, Num(Real(4))) \/ Gt(GivenTurbidity, Num(Real(1500))) THEN "Dangerous"
    ELSE IF Lt(GivenPH, Num(Real(5))) \/ Gt(GivenTurbidity, Num(Real(1000))) THEN "Warning"
    ELSE "Safe"
RuleAnomaly ==
    Lt(GivenPH, Num(Real(3))) \/ Gt(GivenPH, Num(Real(9)))
        \/ Gt(GivenTurbidity, Num(Real(2000)))

RuleResult(role) ==
    CASE role = "pm_model" -> [days_until_replacement |-> RuleDays, confidence |-> 75]
      [] role = "class_model" -> [status |-> RuleStatus, confidence |-> "0.7"]
      [] role = "anomaly_model" ->
            [is_anomaly |-> RuleAnomaly,
             status |-> IF RuleAnomaly THEN "Anomaly Detected" ELSE "Normal Operation"]

PlaceholderOf(role) ==
    CASE role = "pm_model" ->
            [days_until_replacement |-> 5, confidence |-> 50, error |-> "Model unavailable"]
      [] role = "class_model" ->
            [status |-> "Unknown", confidence |-> "0.5", error |-> "Model unavailable"]
      [] role = "anomaly_model" ->
            [is_anomaly |-> FALSE, status |-> "Detection unavailable",
             error |-> "Model unavailable"]

C2_TransportFailureGivesFallback ==
    (/\ Answered("/api/current-data")
     /\ remote.kind = "raise"
     /\ remote.exc \in {"ConnectionError", "Timeout", "HTTPError"})
        => /\ response.status = 500
           /\ response.kind = "object"
           /\ "fallback_data" \in DOMAIN response.body
           /\ response.body.fallback_data =
                [pH |-> RealHalf(6), turbidity |-> Real(500),
                 orp |-> Real(-100), alert_code |-> 0]

C2_Witness ==
    /\ Answered("/api/current-data")
    /\ remote = RemoteRaise("Timeout")
    /\ response.status = 500
    /\ response.body.fallback_data.turbidity = Real(500)

(***************************************************************************)
(* C3                                                                      *)
(***************************************************************************)
WellFormed(b) ==
    /\ b.kind = "dict"
    /\ b.pH.tag = "num" /\ ~b.pH.f.nan /\ b.pH.f.v >= Real(0) /\ b.pH.f.v <= Real(14)
    /\ b.turbidity.tag = "num" /\ ~b.turbidity.f.nan /\ b.turbidity.f.v >= 0
    /\ b.orp.tag = "num" /\ ~b.orp.f.nan

\* C3: for every request with numeric pH in [0,14], turbidity >= 0 and a
\* finite orp, whatever the load flags and whatever each invoked estimator
\* does (returns or raises), the answer holds the three groups maintenance,
\* quality and anomaly, each with its value.
C3_AllThreeGroupsPresent ==
    (Answered("/api/ai-predictions") /\ WellFormed(request.body))
        => /\ response.kind = "object"
           /\ {"maintenance", "quality", "anomaly"} \subseteq DOMAIN response.body
           /\ "days_until_replacement" \in DOMAIN response.body.maintenance
           /\ "status" \in DOMAIN response.body.quality
           /\ "is_anomaly" \in DOMAIN response.body.anomaly

\* all three artifacts are loaded and all three invocations raised
C3_Witness ==
    /\ Answered("/api/ai-predictions")
    /\ WellFormed(request.body)
    /\ \A r \in Roles : models_loaded[r] /\ RoleRaised(r)
    /\ DOMAIN response.body = {"maintenance", "quality", "anomaly"}

(***************************************************************************)
(* C4                                                                      *)
(***************************************************************************)
\* C4 as stated: for each role, when the artifact is not loaded or its
\* invocation raises, the result is the role's threshold rule, carries an
\* `error` field, and the HTTP status stays 200.
C4_FallbackIsRuleWithError ==
    Predicted =>
        \A r \in Roles :
            FellBack(r) =>
                /\ response.status = 200
                /\ "error" \in DOMAIN GroupOf(r)
                /\ \A k \in DOMAIN RuleResult(r) \ {"confidence"} :
                        GroupOf(r)[k] = RuleResult(r)[k]

\* C4 amended: for each role, when the artifact is not loaded the result is
\* the role's threshold rule and carries no `error` field (for maintenance:
\* when pH is finite; int() of a NaN raises and gives the placeholder); when
\* invoking the loaded artifact raises, the result is the role's fixed
\* placeholder (5 days / confidence 50; Unknown / 0.5; not anomalous /
\* "Detection unavailable") with error "Model unavailable", not the
\* threshold rule; the HTTP status is 200 however many roles fell back.
C4_NotLoadedIsRuleRaiseIsPlaceholder ==
    Predicted =>
        /\ response.status = 200
        /\ \A r \in Roles :
            /\ (~models_loaded[r] /\ (r = "pm_model" => ~GivenPH.nan))
                  => GroupOf(r) = RuleResult(r)
            /\ (models_loaded[r] /\ RoleRaised(r))
                  => GroupOf(r) = PlaceholderOf(r)

\* one role was not loaded, another raised, and the rule would not have
\* answered what the placeholder says
C4_Witness ==
    /\ Predicted
    /\ ~models_loaded["pm_model"] /\ ~GivenPH.nan
    /\ models_loaded["class_model"] /\ RoleRaised("class_model")
    /\ models_loaded["anomaly_model"] /\ RoleRaised("anomaly_model")
    /\ RuleAnomaly
    /\ response.status = 200
    /\ "error" \notin DOMAIN response.body.maintenance
    /\ response.body.quality.status = "Unknown"

(***************************************************************************)
(* C5                                                                      *)
(***************************************************************************)
\* C5: when the classification artifact is not loaded, the quality status
\* is Dangerous if pH < 4.0 or turbidity > 1500, otherwise Warning if
\* pH < 5.0 or turbidity > 1000, otherwise Safe; hence lowering pH or
\* raising turbidity never moves the status toward Safe (and orp, of which
\* the rule is no function, never affects it).
C5_HeuristicQualityRule ==
    (Predicted /\ ~models_loaded["class_model"]) =>
        /\ response.body.quality.status = RuleStatus
        /\ \A p \in PHSamples, t \in TurbiditySamples :
              (~p.nan /\ ~GivenPH.nan /\ p.v <= GivenPH.v /\ t.v >= GivenTurbidity.v)
                 => Severity(HeuristicStatus(p, t))
                        >= Severity(response.body.quality.status)

\* pH 3.5 with a clear turbidity is Dangerous
C5_Witness ==
    /\ Predicted
    /\ ~models_loaded["class_model"]
    /\ GivenPH = Num(RealHalf(3))
    /\ GivenTurbidity = Num(Real(0))
    /\ response.body.quality.status = "Dangerous"

(***************************************************************************)
(* C6                                                                      *)
(***************************************************************************)
\* a field of a feed entry is absent, null or empty
Missing(f) == f.tag \in {"absent", "null", "empty"}
\* every field that is present is a number of the kind its conversion takes
PresentFieldsParse(f) ==
    /\ \A k \in {"field1", "field2", "field3"} :
            ~Missing(f[k]) => f[k].lit \in {"int", "dec"}
    /\ ~Missing(f.field4) => f.field4.lit = "int"
\* a present field's parsed value, a missing field's `d`
ParsedOr(f, d) == IF Missing(f) THEN d ELSE f.h

LatestSucceeded ==
    /\ Answered("/api/current-data")
    /\ remote.kind = "json"
    /\ remote.data.type = "object"
    /\ PresentFieldsParse(remote.data.feed)

HistorySucceeded ==
    /\ Answered("/api/historical-data")
    /\ remote.kind = "json"
    /\ remote.data.type = "object"
    /\ remote.data.tag = "list"
    /\ \A i \in DOMAIN remote.data.feeds : PresentFieldsParse(remote.data.feeds[i])

LatestDefaultsFieldByField ==
    LatestSucceeded =>
        /\ response.status = 200
        /\ response.body.status = "success"
        /\ response.body.pH = ParsedOr(remote.data.feed.field1, RealHalf(6))
        /\ response.body.turbidity = ParsedOr(remote.data.feed.field2, Real(500))
        /\ response.body.orp = ParsedOr(remote.data.feed.field3, Real(-100))
        /\ response.body.alert_code =
              IntTrunc(ParsedOr(remote.data.feed.field4, Real(0)))

\* C6 as stated: in /api/current-data and in /api/historical-data, a field
\* of a feed entry that is absent, null or empty takes its default (6.5,
\* 500, -100, 0), the present fields keep their parsed values, and the
\* response is a success.
C6_MissingFieldTakesDefault ==
    /\ LatestDefaultsFieldByField
    /\ HistorySucceeded =>
        /\ response.status = 200
        /\ response.kind = "array"
        /\ Len(response.items) = Len(remote.data.feeds)
        /\ \A i \in DOMAIN remote.data.feeds :
            /\ response.items[i].pH =
                  Some(ParsedOr(remote.data.feeds[i].field1, RealHalf(6)))
            /\ response.items[i].turbidity =
                  Some(ParsedOr(remote.data.feeds[i].field2, Real(500)))
            /\ response.items[i].orp =
                  Some(ParsedOr(remote.data.feeds[i].field3, Real(-100)))
            /\ response.items[i].alert_code =
                  IntTrunc(ParsedOr(remote.data.feeds[i].field4, Real(0)))

\* C6 amended: when the remote call succeeds and the present fields parse,
\* /api/current-data gives a missing (absent, null or empty) field its
\* default (6.5, 500, -100, 0) and /api/historical-data gives a missing
\* field1/field2/field3 the value null and a missing field4 the value 0;
\* in both the present fields keep their parsed values and the response is
\* a success.
C6_LatestDefaultsHistoryNulls ==
    /\ LatestDefaultsFieldByField
    /\ HistorySucceeded =>
        /\ response.status = 200
        /\ response.kind = "array"
        /\ Len(response.items) = Len(remote.data.feeds)
        /\ \A i \in DOMAIN remote.data.feeds :
            /\ response.items[i].pH =
                  IF Missing(remote.data.feeds[i].field1) THEN None
                  ELSE Some(remote.data.feeds[i].field1.h)
            /\ response.items[i].turbidity =
                  IF Missing(remote.data.feeds[i].field2) THEN None
                  ELSE Some(remote.data.feeds[i].field2.h)
            /\ response.items[i].orp =
                  IF Missing(remote.data.feeds[i].field3) THEN None
                  ELSE Some(remote.data.feeds[i].field3.h)
            /\ response.items[i].alert_code =
                  IntTrunc(ParsedOr(remote.data.feeds[i].field4, Real(0)))

\* a history of two entries, the second without field1 and with field2 "7"
C6_Witness ==
    /\ HistorySucceeded
    /\ Len(remote.data.feeds) = 2
    /\ remote.data.feeds[2].field1 = Null
    /\ response.status = 200
    /\ response.items[2].pH = None
    /\ response.items[2].turbidity = Some(Real(7))

(***************************************************************************)
(* C7                                                                      *)
(***************************************************************************)
\* C7: the loaded_count of /api/models-status is the number of the three
\* artifacts whose load succeeded at startup, total_models is 3, and
\* 0 <= loaded_count <= 3, for every subset of load failures and after any
\* sequence of requests.
C7_LoadedCountIsLoadsSucceeded ==
    Answered("/api/models-status") =>
        /\ response.status = 200
        /\ response.body.loaded_count = Cardinality({r \in Roles : disk[r] = "ok"})
        /\ response.body.total_models = 3
        /\ response.body.loaded_count >= 0
        /\ response.body.loaded_count <= 3

\* exactly the classification artifact failed to load
C7_Witness ==
    /\ Answered("/api/models-status")
    /\ disk = [r \in Roles |-> IF r = "class_model" THEN "unreadable" ELSE "ok"]
    /\ response.body.loaded_count = 2

(***************************************************************************)
(* C8                                                                      *)
(***************************************************************************)
Routes ==
    {"/", "/api/current-data", "/api/ai-predictions", "/api/historical-data",
     "/api/models-status"}

\* something raised in a telemetry handler
TelemetryFailed ==
    /\ request.route \in {"/api/current-data", "/api/historical-data"}
    /\ \/ remote.kind = "raise"
       \/ /\ remote.kind = "json"
          /\ \/ remote.data.type # "object"
             \/ /\ request.route = "/api/current-data"
                /\ ~PresentFieldsParse(remote.data.feed)
             \/ /\ request.route = "/api/historical-data"
                /\ \/ remote.data.tag = "null"
                   \/ \E i \in DOMAIN remote.data.feeds :
                        ~PresentFieldsParse(remote.data.feeds[i])

\* the body of a prediction request could not be read as three numbers
BodyFailed ==
    /\ request.route = "/api/ai-predictions"
    /\ ~InputsParsed(request.body)

\* something raised inside the role's prediction section
SectionRaised(r) ==
    \/ RoleRaised(r)
    \/ /\ r = "pm_model"
       /\ \/ GivenPH.nan
          \/ est[r].kind = "value" /\ est[r].nan

\* C8 as stated: on every route, every failure raised while handling a
\* request (transport error, unparsable payload or field, unparsable or
\* non-numeric body, estimator exception) ends in a JSON body with an error
\* field and HTTP 500 (or 400 for a missing body).
C8_EveryFailureIs500 ==
    (/\ response # NoResponse
     /\ \/ TelemetryFailed
        \/ BodyFailed
        \/ Predicted /\ \E r \in Roles : SectionRaised(r))
        => /\ response.kind = "object"
           /\ "error" \in DOMAIN response.body
           /\ \/ response.status = 500
              \/ response.status = 400 /\ NoData(request.body)

\* C8 amended: on every route the handler itself returns a JSON response,
\* whatever was raised; a failure raised outside the three prediction
\* sections (transport error, unparsable payload or field, unparsable or
\* non-numeric body) gives a JSON body with an error field and HTTP 500
\* (400 when the body is null or empty); an exception raised inside a
\* prediction section is caught by that section: the status is 200 and the
\* role's result carries the error field.
C8_FailuresHandledLocally ==
    response # NoResponse =>
        /\ request.route \in Routes
        /\ response.kind \in {"object", "array"}
        /\ (TelemetryFailed \/ BodyFailed) =>
              /\ response.kind = "object"
              /\ "error" \in DOMAIN response.body
              /\ response.status = IF BodyFailed /\ NoData(request.body) THEN 400 ELSE 500
        /\ Predicted =>
              /\ response.status = 200
              /\ \A r \in Roles : SectionRaised(r) => "error" \in DOMAIN GroupOf(r)

\* a field of the latest feed entry was not a number
C8_Witness ==
    /\ Answered("/api/current-data")
    /\ remote.kind = "json"
    /\ remote.data.type = "object"
    /\ remote.data.feed.field2 = Garbage
    /\ response = [kind |-> "object", status |-> 500, body |-> [error |-> "ValueError"]]

C10_ClassIndexClamped ==
    (Predicted /\ models_loaded["class_model"] /\ est["class_model"].kind = "value")
        => /\ response.status = 200
           /\ "error" \notin DOMAIN response.body.quality
           /\ response.body.quality.status =
                IF est["class_model"].out <= 0 THEN "Safe"
                ELSE IF est["class_model"].out = 1 THEN "Warning"
                ELSE "Dangerous"

\* the classifier returned an index past the label table
C10_Witness ==
    /\ Predicted
    /\ models_loaded["class_model"]
    /\ est["class_model"].kind = "value"
    /\ est["class_model"].out >= Len(quality_labels)
    /\ response.body.quality.status = "Dangerous"

=============================================================================
